---- MODULE Spec2Model ----
(***************************************************************************)
(* Model of the valhalla HTTP client: Client.buildBaseRequest and the      *)
(* three endpoint methods Route, Isochrone and Elevation, with the         *)
(* fasthttp request/response buffers, the BeforeRequest hook, the JSON     *)
(* encoding of the request value and the JSON decoding of the response.    *)
(***************************************************************************)
EXTENDS Integers, Sequences, FiniteSets, TLC

\* Number of endpoint calls a behaviour makes before the caller stops.
MaxCalls == 2

\* Number of callers that use one client at the same time.
NumCallers == 2

\* fasthttp.StatusOK, the only status the endpoint methods treat as success.
StatusOK == 200

-----------------------------------------------------------------------------
(* JSON values and byte buffers                                            *)

\* A JSON value: a string, a number, an object, an array or null.  Objects
\* and arrays nested in a document are carried by an identifying text.
JStr(s) == [t |-> "s", s |-> s, n |-> 0]
JNum(n) == [t |-> "n", s |-> "", n |-> n]
JObj(s) == [t |-> "o", s |-> s, n |-> 0]
JArr(s) == [t |-> "a", s |-> s, n |-> 0]
JNull == [t |-> "null", s |-> "", n |-> 0]
\* A Go float that JSON cannot represent (NaN, +Inf, -Inf), or a composite
\* holding one.
JNaN(s) == [t |-> "nan", s |-> s, n |-> 0]
\* A struct field that holds nothing: a nil pointer, a nil slice.
Unset == [t |-> "unset", s |-> "", n |-> 0]

Member(k, v) == [k |-> k, v |-> v]

\* The content of a request or response body: its raw text, and what a JSON
\* parser makes of that text (kind "text": not JSON at all).
EmptyBytes == [kind |-> "empty", raw |-> "", members |-> <<>>]
TextBytes(raw) == [kind |-> "text", raw |-> raw, members |-> <<>>]
NullBytes == [kind |-> "null", raw |-> "null", members |-> <<>>]
ObjectBytes(raw, ms) == [kind |-> "object", raw |-> raw, members |-> ms]

-----------------------------------------------------------------------------
(* json.Unmarshal                                                          *)

\* One field of a Go struct as the decoder sees it: the JSON type it accepts
\* and whether JSON null clears it (pointers and slices) or leaves it alone.
Field(t, nullable) == [t |-> t, nullable |-> nullable]

RECURSIVE DecodeMembers(_, _, _)
DecodeMembers(ms, schema, slots) ==
    IF ms = <<>> THEN [err |-> FALSE, val |-> slots]
    ELSE LET m == Head(ms) IN
         IF m.k \notin DOMAIN schema
         THEN DecodeMembers(Tail(ms), schema, slots)
         ELSE IF m.v.t = "null"
         THEN DecodeMembers(Tail(ms), schema,
                  IF schema[m.k].nullable THEN [slots EXCEPT ![m.k] = Unset]
                                          ELSE slots)
         ELSE IF m.v.t # schema[m.k].t
         THEN [err |-> TRUE, val |-> slots]
         ELSE DecodeMembers(Tail(ms), schema, [slots EXCEPT ![m.k] = m.v])

\* json.Unmarshal(data, v): v starts as slots and receives the members of the
\* document whose keys the struct declares; err is set when the data is not
\* JSON or a member has the wrong type.
Unmarshal(data, schema, slots) ==
    CASE data.kind = "object" -> DecodeMembers(data.members, schema, slots)
      [] data.kind = "null" -> [err |-> FALSE, val |-> slots]
      [] OTHER -> [err |-> TRUE, val |-> slots]

-----------------------------------------------------------------------------
(* ErrorResponse                                                           *)

ErrorResponseSchema ==
    [error_code |-> Field("s", FALSE), error |-> Field("s", FALSE),
     status_code |-> Field("n", FALSE), status |-> Field("s", FALSE)]

\* &ErrorResponse{}: every field is its zero value.
ErrorResponseZero ==
    [error_code |-> JStr(""), error |-> JStr(""),
     status_code |-> JNum(0), status |-> JStr("")]

ErrorResponse(slots) ==
    [ErrorCode |-> slots.error_code.s, ErrorMessage |-> slots.error.s,
     StatusCode |-> slots.status_code.n, Status |-> slots.status.s]

-----------------------------------------------------------------------------
(* json.Marshal                                                            *)

RenderValue(v) ==
    CASE v.t = "s" -> "\"" \o v.s \o "\""
      [] v.t = "n" -> ToString(v.n)
      [] v.t = "null" -> "null"
      [] OTHER -> v.s

RECURSIVE RenderMembers(_)
RenderMembers(ms) ==
    IF ms = <<>> THEN ""
    ELSE "\"" \o Head(ms).k \o "\":" \o RenderValue(Head(ms).v)
         \o (IF Len(ms) > 1 THEN "," ELSE "") \o RenderMembers(Tail(ms))

\* The JSON text of an object with the members ms, and its parse.
ObjectDoc(ms) == ObjectBytes("{" \o RenderMembers(ms) \o "}", ms)

\* A struct field of a request value: its key, whether its tag says
\* omitempty, whether it is a pointer (nilable), and what it holds.
GoField(k, omitempty, nilable, slice, v) ==
    [k |-> k, omitempty |-> omitempty, nilable |-> nilable, slice |-> slice,
     v |-> v]
\* A pointer field tagged omitempty.
PtrField(k, v) == GoField(k, TRUE, TRUE, FALSE, v)
\* A slice field tagged omitempty.
SliceField(k, v) == GoField(k, TRUE, TRUE, TRUE, v)
\* A field that is neither a pointer nor a slice.
ValField(k, omitempty, v) == GoField(k, omitempty, FALSE, FALSE, v)

\* Variant of IsEmptyValue: a pointer is followed, so that a pointer to 0 or
\* to "" counts as empty too.
IsEmptyValueDeref(f) ==
    \/ f.v.t = "unset"
    \/ f.slice /\ f.v.t = "a" /\ f.v.s = "[]"
    \/ f.v.t = "n" /\ f.v.n = 0
    \/ f.v.t = "s" /\ f.v.s = ""

\* Go's "empty value" of omitempty: a nil pointer or slice, a slice of length
\* 0, and for a field that is not a pointer also 0 and "".
IsEmptyValue(f) ==
    \/ f.v.t = "unset"
    \/ f.slice /\ f.v.t = "a" /\ f.v.s = "[]"
    \/ /\ ~f.nilable
       /\ \/ f.v.t = "n" /\ f.v.n = 0
          \/ f.v.t = "s" /\ f.v.s = ""

RECURSIVE EncodeFields(_)
EncodeFields(fs) ==
    IF fs = <<>> THEN <<>>
    ELSE LET f == Head(fs) IN
         (IF f.omitempty /\ IsEmptyValue(f) THEN <<>>
          ELSE IF f.v.t = "unset" THEN <<Member(f.k, JNull)>>
          ELSE <<Member(f.k, f.v)>>) \o EncodeFields(Tail(fs))

\* json.Marshal(body) for a body holding a pointer to a request struct: a nil
\* pointer encodes as null, a float that JSON cannot represent is an error.
Marshal(body) ==
    IF body.nil THEN [err |-> FALSE, data |-> NullBytes]
    ELSE LET ms == EncodeFields(body.fields) IN
         IF \E i \in 1..Len(ms) : ms[i].v.t = "nan"
         THEN [err |-> TRUE, data |-> EmptyBytes]
         ELSE [err |-> FALSE, data |-> ObjectDoc(ms)]

-----------------------------------------------------------------------------
(* Request values                                                          *)

\* What an endpoint method passes as body interface{}: the dynamic type (a
\* pointer to the input struct), whether the pointer is nil, and the fields.
InputValue(typ, fs) == [typ |-> typ, nil |-> FALSE, fields |-> fs]
NilInput(typ) == [typ |-> typ, nil |-> TRUE, fields |-> <<>>]

\* body != nil on an interface: true as soon as the interface has a dynamic
\* type, also when the pointer it holds is nil.
IsNilInterface(body) == body.typ = ""

RouteInputs ==
    { NilInput("*RouteInput"),
      InputValue("*RouteInput",
          << SliceField("locations", JArr("[{\"lon\":-4.486076,\"lat\":48.390394}]")),
             PtrField("costing", JStr("auto")),
             PtrField("alternates", Unset),
             PtrField("id", Unset) >>),
      InputValue("*RouteInput",
          << SliceField("locations", JNaN("[{\"lon\":NaN}]")),
             PtrField("costing", JStr("auto")),
             PtrField("alternates", JNum(0)),
             PtrField("id", JStr("r1")) >>) }

IsochroneInputs ==
    { NilInput("*IsochroneInput"),
      InputValue("*IsochroneInput",
          << SliceField("locations", JArr("[{\"lat\":42.913581,\"lon\":0.137267}]")),
             PtrField("costing", JStr("pedestrian")),
             PtrField("denoise", Unset) >>),
      InputValue("*IsochroneInput",
          << SliceField("locations", Unset),
             PtrField("costing", Unset),
             PtrField("denoise", JNaN("NaN")) >>) }

ElevationInputs ==
    { NilInput("*ElevationInput"),
      InputValue("*ElevationInput",
          << PtrField("height_precision", JNum(2)),
             SliceField("shape", JArr("[{\"lon\":0.137267,\"lat\":42.913581}]")) >>),
      InputValue("*ElevationInput",
          << PtrField("height_precision", Unset),
             SliceField("shape", JNaN("[{\"lon\":NaN,\"lat\":0}]")) >>) }

-----------------------------------------------------------------------------
(* Request struct types                                                    *)

\* The declaration of a struct field: its json key, whether the tag says
\* omitempty, whether the Go type is a pointer, and the JSON type of what it
\* holds ("n" for the Go numbers, "s" for string).
FieldDecl(k, omitempty, pointer, t) ==
    [k |-> k, omitempty |-> omitempty, pointer |-> pointer, t |-> t]

\* Some fields of RouteLocation, RouteInput and IsochroneInput.
RouteLocation ==
    << FieldDecl("lon", FALSE, TRUE, "n"),
       FieldDecl("type", TRUE, TRUE, "s"),
       FieldDecl("radius", TRUE, FALSE, "n") >>
RouteInput ==
    << FieldDecl("costing", TRUE, TRUE, "s"),
       FieldDecl("alternates", TRUE, TRUE, "n"),
       FieldDecl("id", TRUE, TRUE, "s") >>
IsochroneInput ==
    << FieldDecl("costing", TRUE, TRUE, "s"),
       FieldDecl("denoise", TRUE, TRUE, "n") >>

StructNames == {"RouteLocation", "RouteInput", "IsochroneInput"}
StructType(name) ==
    CASE name = "RouteLocation" -> RouteLocation
      [] name = "RouteInput" -> RouteInput
      [] name = "IsochroneInput" -> IsochroneInput

Keys(T) == {T[i].k : i \in 1..Len(T)}
DeclOf(T, k) == T[CHOOSE i \in 1..Len(T) : T[i].k = k]

\* The zero value of a field: nil for a pointer, else 0 or "".
ZeroValue(d) ==
    IF d.pointer THEN Unset ELSE IF d.t = "n" THEN JNum(0) ELSE JStr("")

\* What a composite literal says about one field: nothing, or a value.
NotSet == [set |-> FALSE, v |-> Unset]
Set(v) == [set |-> TRUE, v |-> v]
FieldArgs(d) ==
    IF d.t = "n" THEN {NotSet, Set(JNum(0)), Set(JNum(5))}
    ELSE {NotSet, Set(JStr("")), Set(JStr("auto"))}

\* The composite literals of the struct named name.
Literals(name) ==
    LET T == StructType(name) IN
    { [typ |-> name, args |-> a] :
        a \in { f \in [Keys(T) -> UNION {FieldArgs(T[i]) : i \in 1..Len(T)}] :
                   \A k \in Keys(T) : f[k] \in FieldArgs(DeclOf(T, k)) } }

\* The struct value a literal makes: a field the literal does not set holds
\* its zero value.
New(lit) ==
    LET T == StructType(lit.typ) IN
    InputValue("*" \o lit.typ,
        [ i \in 1..Len(T) |->
            GoField(T[i].k, T[i].omitempty, T[i].pointer, FALSE,
                    IF lit.args[T[i].k].set THEN lit.args[T[i].k].v
                    ELSE ZeroValue(T[i])) ])

\* The struct as json.Unmarshal sees it, and new(T).
Schema(T) == [k \in Keys(T) |-> Field(DeclOf(T, k).t, DeclOf(T, k).pointer)]
Zero(T) == [k \in Keys(T) |-> ZeroValue(DeclOf(T, k))]

-----------------------------------------------------------------------------
(* Errors                                                                  *)

\* A Go error value: nil, an error made by a library (kind "base", named by
\* cause), fmt.Errorf("...: %w") around another error (kind "wrapped", msgs
\* lists the prefixes from the outermost in), or an *ErrorResponse.
NoError ==
    [kind |-> "nil", msgs |-> <<>>, cause |-> "",
     er |-> ErrorResponse(ErrorResponseZero)]
BaseError(cause) == [NoError EXCEPT !.kind = "base", !.cause = cause]
Errorf(msg, e) == [e EXCEPT !.kind = "wrapped", !.msgs = <<msg>> \o @]
ErrorResponseError(er) == [NoError EXCEPT !.kind = "ErrorResponse", !.er = er]

\* ErrorResponse.Error()
ErrorText(er) == er.Status \o ": " \o er.ErrorMessage

-----------------------------------------------------------------------------
(* Endpoints                                                               *)

EndpointFns == {"Route", "Isochrone", "Elevation"}

\* Variant of Path: Isochrone goes to the path of Elevation.
PathOwnIsochrone(fn) ==
    CASE fn = "Route" -> "/route"
      [] fn = "Isochrone" -> "/height"
      [] fn = "Elevation" -> "/height"

\* The path argument each endpoint method gives to buildBaseRequest.
Path(fn) ==
    CASE fn = "Route" -> "/route"
      [] fn = "Isochrone" -> "/route"
      [] fn = "Elevation" -> "/height"

\* The method argument each endpoint method gives to buildBaseRequest.
MethodArg(fn) == "POST"

Inputs(fn) ==
    CASE fn = "Route" -> RouteInputs
      [] fn = "Isochrone" -> IsochroneInputs
      [] fn = "Elevation" -> ElevationInputs

BuildErrMsg(fn) ==
    CASE fn = "Route" -> "failed to build request for route"
      [] fn = "Isochrone" -> "failed to build request for route"
      [] fn = "Elevation" -> "failed to build request for elevation"

CallErrMsg(fn) ==
    CASE fn = "Route" -> "error while calling http route service"
      [] fn = "Isochrone" -> "error while calling http route service"
      [] fn = "Elevation" -> "error while calling http elevation service"

DecodeErrMsg(fn) ==
    CASE fn = "Route" -> "error while decoding http route json response data"
      [] fn = "Isochrone" -> "error while decoding http isochrone json response data"
      [] fn = "Elevation" -> "error while decoding http elevation json response data"

RouteOutputSchema == [id |-> Field("s", TRUE), trip |-> Field("o", TRUE)]
\* &RouteOutput{}
RouteOutputZero == [id |-> Unset, trip |-> Unset]

ElevationOutputSchema ==
    [shape |-> Field("a", TRUE), encoded_polyline |-> Field("s", TRUE),
     range_height |-> Field("a", TRUE), height |-> Field("a", TRUE)]
\* &ElevationOutput{}
ElevationOutputZero ==
    [shape |-> Unset, encoded_polyline |-> Unset,
     range_height |-> Unset, height |-> Unset]

FeatureCollectionSchema ==
    [type |-> Field("s", FALSE), bbox |-> Field("a", TRUE),
     features |-> Field("a", TRUE), crs |-> Field("o", TRUE)]
\* geojson.NewFeatureCollection(): the type is preset, the features are an
\* empty list.
NewFeatureCollection ==
    [type |-> JStr("FeatureCollection"), bbox |-> Unset,
     features |-> JArr("[]"), crs |-> Unset]

OutputType(fn) ==
    CASE fn = "Route" -> "RouteOutput"
      [] fn = "Isochrone" -> "FeatureCollection"
      [] fn = "Elevation" -> "ElevationOutput"

OutputSchema(fn) ==
    CASE fn = "Route" -> RouteOutputSchema
      [] fn = "Isochrone" -> FeatureCollectionSchema
      [] fn = "Elevation" -> ElevationOutputSchema

OutputInit(fn) ==
    CASE fn = "Route" -> RouteOutputZero
      [] fn = "Isochrone" -> NewFeatureCollection
      [] fn = "Elevation" -> ElevationOutputZero

\* The first return value of an endpoint method: a nil pointer, or a pointer
\* to the decoded output.
NilOutput == [nil |-> TRUE, typ |-> "", fields |-> <<>>]
Output(fn, slots) == [nil |-> FALSE, typ |-> OutputType(fn), fields |-> slots]

\* What an endpoint method returns.
Return(out, err) == [out |-> out, err |-> err]
NoReturn == Return(NilOutput, NoError)

-----------------------------------------------------------------------------
(* Configuration, hooks and the fasthttp request                           *)

GoodEndpoint == "http://valhalla.test"
\* An endpoint whose URL has a path of its own.
PrefixEndpoint == "http://valhalla.test/api"
\* A host that opens an IPv6 literal and never closes it: URI.Parse fails.
BadEndpoint == "http://[::1"
Paths == {Path(f) : f \in EndpointFns}

\* ClientConfig values: the endpoint, the custom headers (name, value) and
\* the TLS settings.
Configs ==
    [Endpoint : {GoodEndpoint, PrefixEndpoint, BadEndpoint},
     CustomHeaders : {{}, {<<"X-Api-Key", "k1">>}},
     TLSConfig : {"tls.Config"}]

\* The ClientConfig of the runs that do not vary it.
PlainConfig ==
    [Endpoint |-> GoodEndpoint, CustomHeaders |-> {}, TLSConfig |-> "tls.Config"]

\* &fasthttp.Client{Name: ..., TLSConfig: cfg.TLSConfig}
NewHTTPClient(cfg) ==
    [Name |-> "valhalla-http-client-go", TLSConfig |-> cfg.TLSConfig]

\* A BeforeRequestFn: what it returns (err "" is nil) and what it does to the
\* request ("" leaves the method or content type as it is).
NilHook ==
    [name |-> "nil", err |-> "", method |-> "", ctype |-> "",
     headers |-> {}, setsBody |-> FALSE, body |-> EmptyBytes]
HookAuth ==
    [NilHook EXCEPT !.name = "auth", !.headers = {<<"Authorization", "Bearer t">>}]
HookReject == [NilHook EXCEPT !.name = "reject", !.err = "hook: rejected"]
HookRewrite ==
    [NilHook EXCEPT !.name = "rewrite", !.method = "PUT", !.ctype = "text/plain",
                    !.setsBody = TRUE, !.body = TextBytes("from hook")]
Hooks == {HookAuth, HookReject, HookRewrite}

\* A parsed URI: scheme and host, and the path.
URI(host, path) == [host |-> host, path |-> path]

\* fasthttp.AcquireRequest(): a reset request, whose method reads GET.
AcquireRequest ==
    [method |-> "GET", uri |-> URI("", ""), ctype |-> "", headers |-> {},
     body |-> EmptyBytes]

\* client.config.Endpoint+"/"+path
URIString(endpoint, path) == endpoint \o "/" \o path

\* Variant of URIParseFails: every text parses.
URIParseFailsNever(text) == FALSE

\* req.URI().Parse(nil, uri) returns an error.
URIParseFails(text) == text \in {URIString(BadEndpoint, p) : p \in Paths}

\* The texts the client puts together, cut where a URI parser cuts them: the
\* scheme and host in one piece, then each slash and each path segment.
EndpointTokens(endpoint) ==
    CASE endpoint = GoodEndpoint -> <<"http://valhalla.test">>
      [] endpoint = PrefixEndpoint -> <<"http://valhalla.test", "/", "api">>
      [] endpoint = BadEndpoint -> <<"http://[::1">>
PathTokens(path) ==
    CASE path = "/route" -> <<"/", "route">>
      [] path = "/height" -> <<"/", "height">>

RECURSIVE JoinTokens(_)
JoinTokens(ts) == IF ts = <<>> THEN "" ELSE Head(ts) \o JoinTokens(Tail(ts))

\* Variant of URITokens: the endpoint is left out.
URITokensPathOnly(endpoint, path) == <<"">> \o PathTokens(path)

\* client.config.Endpoint+"/"+path, in pieces.
URITokens(endpoint, path) ==
    EndpointTokens(endpoint) \o <<"/">> \o PathTokens(path)

\* The path normalisation of fasthttp's URI: of slashes that follow each
\* other only one is kept.
RECURSIVE NormalizePath(_)
NormalizePath(ts) ==
    IF Len(ts) < 2 THEN ts
    ELSE IF ts[1] = "/" /\ ts[2] = "/" THEN NormalizePath(Tail(ts))
    ELSE <<Head(ts)>> \o NormalizePath(Tail(ts))

\* req.URI() after Parse(nil, uri) has returned nil.
ParseURI(ts) == URI(Head(ts), JoinTokens(NormalizePath(Tail(ts))))

\* The URL a request goes to.
URL(uri) == uri.host \o uri.path

\* Variant of HookAborts: the error of the hook is dropped.
HookAbortsNever(h) == FALSE

\* Variant of HookIsSet: the hook is taken to be nil.
HookIsSetNever(h) == FALSE

\* client.beforeRequestFn != nil
HookIsSet(h) == h # NilHook

\* client.beforeRequestFn(req) returned a non-nil error.
HookAborts(h) == h.err # ""

\* What a hook that returns nil has done to the request.
ApplyHook(h, r) ==
    [r EXCEPT !.method = IF h.method = "" THEN @ ELSE h.method,
              !.ctype = IF h.ctype = "" THEN @ ELSE h.ctype,
              !.headers = @ \cup h.headers,
              !.body = IF h.setsBody THEN h.body ELSE @]

\* Variant of MarshalAborts: the error of json.Marshal is dropped.
MarshalAbortsNever(m) == FALSE

\* json.Marshal(body) returned a non-nil error.
MarshalAborts(m) == m.err

\* req.SetBody(bodyBytes)
SetBody(r, data) == [r EXCEPT !.body = data]

\* req.Header.SetContentType("application/json")
SetContentType(r) == [r EXCEPT !.ctype = "application/json"]

\* Variant of FinishRequest: a content type and a body that the request
\* already has are kept.
FinishRequestKeeping(method, r, hasBody, data) ==
    [r EXCEPT !.ctype = IF @ = "" THEN "application/json" ELSE @,
              !.body = IF hasBody /\ @ = EmptyBytes THEN data ELSE @]

\* The request buildBaseRequest returns once the hook has run: the body when
\* there is one, then the content type.  The method argument is not used.
FinishRequest(method, r, hasBody, data) ==
    SetContentType(IF hasBody THEN SetBody(r, data) ELSE r)

-----------------------------------------------------------------------------
(* The endpoint methods after buildBaseRequest                             *)

\* return nil, fmt.Errorf("failed to build request for ...: %w", err)
BuildFailure(fn, e) == Return(NilOutput, Errorf(BuildErrMsg(fn), e))

\* Variant of TransportFailure: the failure is reported as an ErrorResponse.
TransportFailureAsService(fn, e) ==
    Return(NilOutput,
           ErrorResponseError([ErrorResponse(ErrorResponseZero)
                                   EXCEPT !.ErrorMessage = e.cause]))

\* return nil, fmt.Errorf("error while calling http ... service: %w", err)
TransportFailure(fn, e) == Return(NilOutput, Errorf(CallErrMsg(fn), e))

\* Variant of AfterTransportFailure: the request is sent again.
AfterTransportFailureRetry == "do"

\* Where the endpoint method goes when httpClient.Do has failed: it returns.
AfterTransportFailure == "done"

\* Variant of IsErrorStatus: every 2xx status is a success.
IsErrorStatusNot2xx(status) == status < 200 \/ status >= 300

\* resp.StatusCode() != fasthttp.StatusOK
IsErrorStatus(status) == status # StatusOK

\* Variant of StatusError: the HTTP status always goes into StatusCode.
StatusErrorHTTPStatus(r) ==
    LET d == Unmarshal(r.body, ErrorResponseSchema, ErrorResponseZero)
        errRes == ErrorResponse(d.val)
    IN IF d.err
       THEN [errRes EXCEPT !.StatusCode = r.status, !.ErrorMessage = r.body.raw]
       ELSE [errRes EXCEPT !.StatusCode = r.status]

\* Variant of StatusError: nothing is done when decoding fails.
StatusErrorNoFallback(r) ==
    ErrorResponse(Unmarshal(r.body, ErrorResponseSchema, ErrorResponseZero).val)

\* errRes after the status check: the decoded body, or when decoding fails
\* the status code and the raw body on top of what the decoder left.
StatusError(r) ==
    LET d == Unmarshal(r.body, ErrorResponseSchema, ErrorResponseZero)
        errRes == ErrorResponse(d.val)
    IN IF d.err
       THEN [errRes EXCEPT !.StatusCode = r.status, !.ErrorMessage = r.body.raw]
       ELSE errRes

\* Variant of StatusFailure: errRes is returned only when decoding failed.
StatusFailureNilError(r) ==
    IF Unmarshal(r.body, ErrorResponseSchema, ErrorResponseZero).err
    THEN Return(NilOutput, ErrorResponseError(StatusError(r)))
    ELSE Return(NilOutput, NoError)

\* return nil, errRes
StatusFailure(r) == Return(NilOutput, ErrorResponseError(StatusError(r)))

\* Variant of DecodeOutput: the output is returned as it was created.
DecodeOutputUndecoded(fn, r) ==
    LET d == Unmarshal(r.body, OutputSchema(fn), OutputInit(fn)) IN
    IF d.err
    THEN Return(NilOutput, Errorf(DecodeErrMsg(fn), BaseError("json.Unmarshal")))
    ELSE Return(Output(fn, OutputInit(fn)), NoError)

\* Variant of DecodeOutput: the error of json.Unmarshal is dropped.
DecodeOutputIgnoringError(fn, r) ==
    Return(Output(fn, Unmarshal(r.body, OutputSchema(fn), OutputInit(fn)).val),
           NoError)

\* The output decoded from a 200 response, or the decode error.
DecodeOutput(fn, r) ==
    LET d == Unmarshal(r.body, OutputSchema(fn), OutputInit(fn)) IN
    IF d.err
    THEN Return(NilOutput, Errorf(DecodeErrMsg(fn), BaseError("json.Unmarshal")))
    ELSE Return(Output(fn, d.val), NoError)

\* What the endpoint method returns for the response r.
HandleResult(fn, r) ==
    IF IsErrorStatus(r.status) THEN StatusFailure(r) ELSE DecodeOutput(fn, r)

-----------------------------------------------------------------------------
(* The remote service and the transport                                    *)

RouteBody ==
    ObjectDoc(<< Member("id", JStr("r1")),
                 Member("trip", JObj("{\"status\":0,\"units\":\"kilometers\"}")) >>)
ElevationBody ==
    ObjectDoc(<< Member("shape", JArr("[{\"lat\":42.913581,\"lon\":0.137267}]")),
                 Member("height", JArr("[437.5]")) >>)
FeatureCollectionBody ==
    ObjectDoc(<< Member("features", JArr("[{\"type\":\"Feature\"}]")),
                 Member("type", JStr("FeatureCollection")) >>)
ErrorBody ==
    ObjectDoc(<< Member("error_code", JStr("171")),
                 Member("error", JStr("No suitable edges near location")),
                 Member("status_code", JNum(400)),
                 Member("status", JStr("Bad Request")) >>)
PartialErrorBody == ObjectDoc(<< Member("error", JStr("Try again later")) >>)
\* An error body whose error_code is a number, where the struct has a string.
NumericCodeErrorBody ==
    ObjectDoc(<< Member("status", JStr("Bad Request")),
                 Member("error_code", JNum(171)),
                 Member("error", JStr("No suitable edges near location")) >>)
\* An object whose members have the wrong type for every output struct.
MistypedBody ==
    ObjectDoc(<< Member("id", JNum(5)), Member("type", JNum(7)),
                 Member("height", JStr("high")) >>)
BadGatewayBody == TextBytes("Bad Gateway")

ResponseBodies ==
    { RouteBody, ElevationBody, FeatureCollectionBody, ErrorBody,
      PartialErrorBody, NumericCodeErrorBody, MistypedBody, BadGatewayBody,
      NullBytes, EmptyBytes }

Statuses == {200, 201, 204, 301, 400, 502}

TransportErrors == {"dial tcp: connection refused", "timeout"}

\* A response buffer: fasthttp.AcquireResponse() gives status 200 and no body.
AcquireResponse == [status |-> 200, body |-> EmptyBytes]
Response(status, body) == [status |-> status, body |-> body]

-----------------------------------------------------------------------------
(* State                                                                   *)

VARIABLES
    config,          \* client.config
    httpClient,      \* client.httpClient
    beforeRequestFn, \* client.beforeRequestFn
    setter,          \* when the caller calls BeforeRequest: "before" any
                     \* endpoint call runs, or "concurrent" with the calls
    lastSet,         \* the argument of the latest BeforeRequest
    hookReads,       \* the values the call has read from
                     \* client.beforeRequestFn, in order
    pc,              \* where the caller is in the endpoint method
    fn,              \* the endpoint method being called
    input,           \* its argument, as the body interface{} of buildBaseRequest
    req,             \* the request buffer of the call
    resp,            \* the response buffer of the call
    ret,             \* the values the endpoint method returns
    reqBuf,          \* request buffers acquired and released by the call
    respBuf,         \* response buffers acquired and released by the call
    sent,            \* the requests handed to httpClient.Do by the call
    doErr,           \* what httpClient.Do returned: "none" before it returns,
                     \* "nil", or the text of its error
    hookCalls,       \* invocations of the hook by the call
    marshalCalls,    \* json.Marshal calls of the call
    unmarshalCalls,  \* json.Unmarshal calls of the call
    ncalls,          \* endpoint calls that have returned
    literal,         \* a request struct as a caller writes it: its type and
                     \* the fields the composite literal sets
    payload,         \* what json.Marshal made of it
    back,            \* what json.Unmarshal made of the payload
    mpc,             \* how far the encoding and decoding of literal has gone
    callers,         \* the concurrent callers of one client: for each, where
                     \* it is in its call and the locals of the call
    reqBufs,         \* the content of each pooled request buffer
    respBufs,        \* the content of each pooled response buffer
    reqFree,         \* the request buffers that are in the pool
    respFree         \* the response buffers that are in the pool

vars ==
    << config, httpClient, beforeRequestFn, setter, lastSet, hookReads, pc, fn, input, req, resp, ret, reqBuf, respBuf,
       sent, doErr, hookCalls, marshalCalls, unmarshalCalls, ncalls,
       literal, payload, back, mpc,
       callers, reqBufs, respBufs, reqFree, respFree >>

codec == << literal, payload, back, mpc >>
conc == << callers, reqBufs, respBufs, reqFree, respFree >>

client == << config, httpClient, beforeRequestFn >>
history == << setter, lastSet >>
callVars ==
    << fn, input, req, resp, ret, reqBuf, respBuf, sent, doErr, hookCalls,
       hookReads,
       marshalCalls, unmarshalCalls >>

NoBuffers == [acquired |-> 0, released |-> 0]
Acquire(b) == [b EXCEPT !.acquired = @ + 1]
\* Variant of Release: the buffer is not given back.
ReleaseLeak(b) == b
Release(b) == [b EXCEPT !.released = @ + 1]

\* No call is running: the variables of a call hold nothing.
NoCall ==
    /\ fn = ""
    /\ input = NilInput("")
    /\ req = AcquireRequest
    /\ resp = AcquireResponse
    /\ ret = NoReturn
    /\ reqBuf = NoBuffers
    /\ respBuf = NoBuffers
    /\ sent = <<>>
    /\ doErr = "none"
    /\ hookCalls = 0
    /\ hookReads = <<>>
    /\ marshalCalls = 0
    /\ unmarshalCalls = 0

\* No struct is being encoded.
NoLiteral == [typ |-> "", args |-> <<>>]
NoPayload == [err |-> FALSE, data |-> EmptyBytes]
NoBack == [err |-> FALSE, val |-> <<>>]
NoCodec ==
    /\ literal = NoLiteral
    /\ payload = NoPayload
    /\ back = NoBack
    /\ mpc = "none"

\* There are no concurrent callers.
NoConc ==
    /\ callers = <<>>
    /\ reqBufs = <<>>
    /\ respBufs = <<>>
    /\ reqFree = {}
    /\ respFree = {}

\* NewClient(cfg): the hook is nil.
Init ==
    /\ config \in Configs
    /\ httpClient = NewHTTPClient(config)
    /\ beforeRequestFn = NilHook
    /\ setter = "before"
    /\ lastSet = NilHook
    /\ pc = "idle"
    /\ ncalls = 0
    /\ NoCall
    /\ NoCodec
    /\ NoConc

-----------------------------------------------------------------------------
(* Actions                                                                 *)

\* Variant of CanSetHook: the caller calls BeforeRequest at any time.
CanSetHookAnyTime(when, at) == TRUE

\* Whether the caller calls BeforeRequest now: a caller that sets the hook
\* before its calls does so only while no endpoint call is running.
CanSetHook(when, at) == when = "concurrent" \/ at = "idle"

\* Variant of StoreHook: a hook that is set stays.
StoreHookOnce(old, h) == IF old = NilHook THEN h ELSE old

\* client.beforeRequestFn = fn
StoreHook(old, h) == h

\* Client.BeforeRequest(fn)
BeforeRequest(h) ==
    /\ CanSetHook(setter, pc)
    /\ beforeRequestFn' = StoreHook(beforeRequestFn, h)
    /\ lastSet' = h
    /\ UNCHANGED << config, httpClient, setter, codec, conc, pc, ncalls,
                    callVars >>

\* The caller enters Route, Isochrone or Elevation, which enters
\* buildBaseRequest: the request is acquired and its URI parsed.
Call(f, in) ==
    /\ pc = "idle"
    /\ ncalls < MaxCalls
    /\ fn' = f
    /\ input' = in
    /\ LET text == URIString(config.Endpoint, Path(f)) IN
       IF URIParseFails(text)
       THEN /\ req' = AcquireRequest
            /\ reqBuf' = Release(Acquire(NoBuffers))
            /\ ret' = BuildFailure(f,
                          Errorf("unable to build request uri", BaseError("uri.Parse")))
            /\ pc' = "done"
       ELSE /\ req' = [AcquireRequest EXCEPT
                           !.uri = ParseURI(URITokens(config.Endpoint, Path(f)))]
            /\ reqBuf' = Acquire(NoBuffers)
            /\ ret' = NoReturn
            /\ pc' = "hookCheck"
    /\ UNCHANGED << client, history, codec, conc >>
    /\ UNCHANGED hookReads
    /\ UNCHANGED << resp, respBuf, sent, doErr, hookCalls, marshalCalls,
                    unmarshalCalls, ncalls >>

\* if client.beforeRequestFn != nil
HookCheck ==
    /\ pc = "hookCheck"
    /\ pc' = IF HookIsSet(beforeRequestFn) THEN "hookCall" ELSE "setBody"
    /\ hookReads' = Append(hookReads, beforeRequestFn)
    /\ UNCHANGED << client, history, codec, conc >>
    /\ UNCHANGED << fn, input, req, resp, ret, reqBuf, respBuf, sent, doErr,
                    hookCalls, marshalCalls, unmarshalCalls, ncalls >>

\* client.beforeRequestFn(req), and the return on its error.
HookCall ==
    /\ pc = "hookCall"
    /\ hookReads' = Append(hookReads, beforeRequestFn)
    /\ IF beforeRequestFn = NilHook
       THEN \* calling a nil function panics
            /\ pc' = "panic"
            /\ UNCHANGED << req, reqBuf, ret, hookCalls >>
       ELSE /\ hookCalls' = hookCalls + 1
            /\ IF HookAborts(beforeRequestFn)
               THEN /\ reqBuf' = Release(reqBuf)
                    /\ ret' = BuildFailure(fn,
                                  Errorf("error while calling BeforeRequest custom fn",
                                         BaseError(beforeRequestFn.err)))
                    /\ pc' = "done"
                    /\ UNCHANGED req
               ELSE /\ req' = ApplyHook(beforeRequestFn, req)
                    /\ pc' = "setBody"
                    /\ UNCHANGED << reqBuf, ret >>
    /\ UNCHANGED << client, history, codec, conc >>
    /\ UNCHANGED << fn, input, resp, respBuf, sent, doErr, marshalCalls,
                    unmarshalCalls, ncalls >>

\* The rest of buildBaseRequest (the body, the content type) and, back in the
\* endpoint method, the error check and fasthttp.AcquireResponse().
BuildBody ==
    /\ pc = "setBody"
    /\ LET hasBody == ~IsNilInterface(input)
           m == Marshal(input)
       IN /\ marshalCalls' = IF hasBody THEN marshalCalls + 1 ELSE marshalCalls
          /\ IF hasBody /\ MarshalAborts(m)
             THEN /\ reqBuf' = Release(reqBuf)
                  /\ ret' = BuildFailure(fn,
                                Errorf("error while encoding body to json",
                                       BaseError("json.Marshal")))
                  /\ pc' = "done"
                  /\ UNCHANGED << req, resp, respBuf >>
             ELSE /\ req' = FinishRequest(MethodArg(fn), req, hasBody, m.data)
                  /\ resp' = AcquireResponse
                  /\ respBuf' = Acquire(respBuf)
                  /\ pc' = "do"
                  /\ UNCHANGED << reqBuf, ret >>
    /\ UNCHANGED << client, history, codec, conc >>
    /\ UNCHANGED hookReads
    /\ UNCHANGED << fn, input, sent, doErr, hookCalls, unmarshalCalls,
                    ncalls >>

\* client.httpClient.Do(req, resp) returns an error; the endpoint method
\* returns it wrapped, and the deferred releases run.
DoFail(e) ==
    /\ pc = "do"
    /\ sent' = Append(sent, req)
    /\ doErr' = e
    /\ ret' = TransportFailure(fn, BaseError(e))
    /\ reqBuf' = Release(reqBuf)
    /\ respBuf' = Release(respBuf)
    /\ pc' = AfterTransportFailure
    /\ UNCHANGED << client, history, codec, conc >>
    /\ UNCHANGED hookReads
    /\ UNCHANGED << fn, input, req, resp, hookCalls, marshalCalls,
                    unmarshalCalls, ncalls >>

\* client.httpClient.Do(req, resp) returns nil: resp holds the answer.
DoResponse(status, body) ==
    /\ pc = "do"
    /\ sent' = Append(sent, req)
    /\ doErr' = "nil"
    /\ resp' = Response(status, body)
    /\ pc' = "status"
    /\ UNCHANGED << client, history, codec, conc >>
    /\ UNCHANGED hookReads
    /\ UNCHANGED << fn, input, req, ret, reqBuf, respBuf, hookCalls,
                    marshalCalls, unmarshalCalls, ncalls >>

\* The status check, the decoding, the return and the deferred releases.
HandleResponse ==
    /\ pc = "status"
    /\ ret' = HandleResult(fn, resp)
    /\ unmarshalCalls' = unmarshalCalls + 1
    /\ reqBuf' = Release(reqBuf)
    /\ respBuf' = Release(respBuf)
    /\ pc' = "done"
    /\ UNCHANGED << client, history, codec, conc >>
    /\ UNCHANGED hookReads
    /\ UNCHANGED << fn, input, req, resp, sent, doErr, hookCalls,
                    marshalCalls, ncalls >>

\* Variant of HookAfterCall: the endpoint method clears the hook.
HookAfterCallCleared(h) == NilHook

\* client.beforeRequestFn when an endpoint method returns: no endpoint method
\* assigns it.
HookAfterCall(h) == h

\* The caller has the return values; the call is over.
Finish ==
    /\ pc = "done"
    /\ pc' = "idle"
    /\ ncalls' = ncalls + 1
    /\ fn' = ""
    /\ input' = NilInput("")
    /\ req' = AcquireRequest
    /\ resp' = AcquireResponse
    /\ ret' = NoReturn
    /\ reqBuf' = NoBuffers
    /\ respBuf' = NoBuffers
    /\ sent' = <<>>
    /\ doErr' = "none"
    /\ hookCalls' = 0
    /\ hookReads' = <<>>
    /\ marshalCalls' = 0
    /\ unmarshalCalls' = 0
    /\ beforeRequestFn' = HookAfterCall(beforeRequestFn)
    /\ UNCHANGED << config, httpClient, history, codec, conc >>

Next ==
    \/ \E h \in Hooks \cup {NilHook} : BeforeRequest(h)
    \/ \E f \in EndpointFns : \E in \in Inputs(f) : Call(f, in)
    \/ HookCheck
    \/ HookCall
    \/ BuildBody
    \/ \E e \in TransportErrors : DoFail(e)
    \/ \E st \in Statuses : \E b \in ResponseBodies : DoResponse(st, b)
    \/ HandleResponse
    \/ Finish

Spec == Init /\ [][Next]_vars

\* A client whose caller may also call BeforeRequest while an endpoint call
\* is running.
InitRace ==
    /\ config \in Configs
    /\ httpClient = NewHTTPClient(config)
    /\ beforeRequestFn = NilHook
    /\ setter \in {"before", "concurrent"}
    /\ lastSet = NilHook
    /\ pc = "idle"
    /\ ncalls = 0
    /\ NoCall
    /\ NoCodec
    /\ NoConc

SpecRace == InitRace /\ [][Next]_vars

-----------------------------------------------------------------------------
(* Encoding a request struct and decoding it back                          *)

\* A caller writes a request struct; no endpoint call is running.
InitMarshal ==
    /\ config = PlainConfig
    /\ httpClient = NewHTTPClient(config)
    /\ beforeRequestFn = NilHook
    /\ setter = "before"
    /\ lastSet = NilHook
    /\ pc = "idle"
    /\ ncalls = 0
    /\ NoCall
    /\ NoConc
    /\ literal \in UNION {Literals(name) : name \in StructNames}
    /\ payload = NoPayload
    /\ back = NoBack
    /\ mpc = "literal"

\* json.Marshal(body) on a pointer to the struct.
MarshalStruct ==
    /\ mpc = "literal"
    /\ payload' = Marshal(New(literal))
    /\ mpc' = "encoded"
    /\ UNCHANGED << client, history, conc, callVars, pc, ncalls, literal, back >>

\* json.Unmarshal(payload, v) with v a pointer to a new struct of the type.
UnmarshalStruct ==
    /\ mpc = "encoded"
    /\ ~payload.err
    /\ back' = Unmarshal(payload.data, Schema(StructType(literal.typ)),
                         Zero(StructType(literal.typ)))
    /\ mpc' = "decoded"
    /\ UNCHANGED << client, history, conc, callVars, pc, ncalls, literal, payload >>

NextMarshal == MarshalStruct \/ UnmarshalStruct

SpecMarshal == InitMarshal /\ [][NextMarshal]_vars

-----------------------------------------------------------------------------
(* Several callers on one client                                           *)

Callers == 1..NumCallers

\* The request and response objects of fasthttp's pools; a caller holds at
\* most one of each, so there are never more in use than callers.
BufIds == 1..NumCallers

\* Variant of PoolGet: the pool hands out any object, held or not.
PoolGetAny(free) == BufIds

\* sync.Pool.Get of fasthttp.AcquireRequest and AcquireResponse: one of the
\* objects that are in the pool.
PoolGet(free) == free

\* The endpoint calls the callers make, each with a request value that
\* encodes, and the answers the service gives.
ConcCalls ==
    { <<f, in>> \in EndpointFns \X UNION {Inputs(g) : g \in EndpointFns} :
        /\ f \in {"Route", "Elevation"}
        /\ in \in Inputs(f)
        /\ ~in.nil
        /\ ~Marshal(in).err }
ConcAnswers ==
    { Response(StatusOK, ElevationBody), Response(400, ErrorBody) }

\* The locals of one caller: the endpoint method and its argument, the
\* request and response it holds (0: none), what went over the wire for it,
\* what the service answered, and what the method returned.
IdleCaller ==
    [pc |-> "idle", fn |-> "", input |-> NilInput(""), reqId |-> 0,
     respId |-> 0, wire |-> AcquireRequest, answer |-> AcquireResponse,
     doErr |-> "none", ret |-> NoReturn]

\* One client, its hook set before any call, and callers that have not
\* called yet; every pooled object is reset.
InitConc ==
    /\ config = PlainConfig
    /\ httpClient = NewHTTPClient(config)
    /\ beforeRequestFn = HookAuth
    /\ setter = "before"
    /\ lastSet = HookAuth
    /\ pc = "idle"
    /\ ncalls = 0
    /\ NoCall
    /\ NoCodec
    /\ callers = [c \in Callers |-> IdleCaller]
    /\ reqBufs = [b \in BufIds |-> AcquireRequest]
    /\ respBufs = [b \in BufIds |-> AcquireResponse]
    /\ reqFree = BufIds
    /\ respFree = BufIds

ConcFrame == UNCHANGED << client, history, codec, callVars, pc, ncalls >>

\* Caller c enters an endpoint method and buildBaseRequest: the request is
\* acquired and its URI parsed.
CallerAcquireRequest(c, f, in, b) ==
    /\ callers[c].pc = "idle"
    /\ b \in PoolGet(reqFree)
    /\ reqFree' = reqFree \ {b}
    /\ reqBufs' = [reqBufs EXCEPT ![b] =
                       [AcquireRequest EXCEPT
                           !.uri = ParseURI(URITokens(config.Endpoint, Path(f)))]]
    /\ callers' = [callers EXCEPT ![c] =
                       [IdleCaller EXCEPT !.pc = "build", !.fn = f,
                                          !.input = in, !.reqId = b]]
    /\ UNCHANGED << respBufs, respFree >>
    /\ ConcFrame

\* The rest of buildBaseRequest for caller c: the hook, the body and the
\* content type, written to the request c holds.
CallerBuild(c) ==
    /\ callers[c].pc = "build"
    /\ LET me == callers[c]
           r == reqBufs[me.reqId]
           hooked == IF HookIsSet(beforeRequestFn)
                     THEN ApplyHook(beforeRequestFn, r) ELSE r
           m == Marshal(me.input)
       IN IF (HookIsSet(beforeRequestFn) /\ HookAborts(beforeRequestFn))
             \/ MarshalAborts(m)
          THEN /\ reqBufs' = [reqBufs EXCEPT ![me.reqId] = AcquireRequest]
               /\ reqFree' = reqFree \cup {me.reqId}
               /\ callers' = [callers EXCEPT
                      ![c].pc = "done", ![c].reqId = 0,
                      ![c].ret = BuildFailure(me.fn, BaseError("build"))]
          ELSE /\ reqBufs' = [reqBufs EXCEPT ![me.reqId] =
                      FinishRequest(MethodArg(me.fn), hooked,
                                    ~IsNilInterface(me.input), m.data)]
               /\ callers' = [callers EXCEPT ![c].pc = "acquireResp"]
               /\ UNCHANGED reqFree
    /\ UNCHANGED << respBufs, respFree >>
    /\ ConcFrame

\* fasthttp.AcquireResponse() in the endpoint method of caller c.
CallerAcquireResponse(c, b) ==
    /\ callers[c].pc = "acquireResp"
    /\ b \in PoolGet(respFree)
    /\ respFree' = respFree \ {b}
    /\ respBufs' = [respBufs EXCEPT ![b] = AcquireResponse]
    /\ callers' = [callers EXCEPT ![c].pc = "do", ![c].respId = b]
    /\ UNCHANGED << reqBufs, reqFree >>
    /\ ConcFrame

\* httpClient.Do(req, resp) of caller c writes the request it was given to
\* the connection.
CallerSend(c) ==
    /\ callers[c].pc = "do"
    /\ callers' = [callers EXCEPT ![c].pc = "wait",
                                  ![c].wire = reqBufs[callers[c].reqId]]
    /\ UNCHANGED << reqBufs, respBufs, reqFree, respFree >>
    /\ ConcFrame

\* httpClient.Do of caller c reads the answer a into the response it was
\* given and returns nil.
CallerReceive(c, a) ==
    /\ callers[c].pc = "wait"
    /\ respBufs' = [respBufs EXCEPT ![callers[c].respId] = a]
    /\ callers' = [callers EXCEPT ![c].pc = "status", ![c].answer = a,
                                  ![c].doErr = "nil"]
    /\ UNCHANGED << reqBufs, reqFree, respFree >>
    /\ ConcFrame

\* The endpoint method of caller c returns, and its deferred releases reset
\* the request and the response and put them back in the pools.
CallerReturn(c, r) ==
    /\ callers' = [callers EXCEPT ![c].pc = "done", ![c].ret = r,
                                  ![c].reqId = 0, ![c].respId = 0]
    /\ reqBufs' = [reqBufs EXCEPT ![callers[c].reqId] = AcquireRequest]
    /\ respBufs' = [respBufs EXCEPT ![callers[c].respId] = AcquireResponse]
    /\ reqFree' = reqFree \cup {callers[c].reqId}
    /\ respFree' = respFree \cup {callers[c].respId}
    /\ ConcFrame

\* httpClient.Do of caller c returns an error.
CallerDoFail(c, e) ==
    /\ callers[c].pc = "wait"
    /\ CallerReturn(c, TransportFailure(callers[c].fn, BaseError(e)))

\* The status check and the decoding of what the response of caller c
\* holds.
CallerHandle(c) ==
    /\ callers[c].pc = "status"
    /\ CallerReturn(c, HandleResult(callers[c].fn, respBufs[callers[c].respId]))

NextConc ==
    \/ \E c \in Callers : \E call \in ConcCalls : \E b \in BufIds :
          CallerAcquireRequest(c, call[1], call[2], b)
    \/ \E c \in Callers : CallerBuild(c)
    \/ \E c \in Callers : \E b \in BufIds : CallerAcquireResponse(c, b)
    \/ \E c \in Callers : CallerSend(c)
    \/ \E c \in Callers : \E a \in ConcAnswers : CallerReceive(c, a)
    \/ \E c \in Callers : CallerDoFail(c, "timeout")
    \/ \E c \in Callers : CallerHandle(c)

SpecConc == InitConc /\ [][NextConc]_vars

-----------------------------------------------------------------------------
(* Properties                                                              *)

\* The value of the member k of a JSON object body; none when it has no such
\* member.
HasMember(body, k) == \E i \in 1..Len(body.members) : body.members[i].k = k
BodyField(body, k) ==
    body.members[CHOOSE i \in 1..Len(body.members) : body.members[i].k = k].v

\* The body is a JSON object in which every member that the struct declares
\* has the JSON type of its field.
WellFormedFor(body, schema) ==
    /\ body.kind = "object"
    /\ \A i \in 1..Len(body.members) :
          body.members[i].k \in DOMAIN schema
              => body.members[i].v.t = schema[body.members[i].k].t

\* The body is not JSON text.
NotJSON(body) == body.kind \in {"text", "empty"}

\* The request value holds a float that JSON cannot represent.
HasNaN(in) == \E i \in 1..Len(in.fields) : in.fields[i].v.t = "nan"

Returned == pc = "done"
NilErr(e) == e.kind = "nil"
IsErrorResponse(e) == e.kind = "ErrorResponse"
Answered == doErr = "nil"

\* C1: when an endpoint call returns, on whatever exit path, exactly one of
\* the response and the error is non-nil.
C1_ExactlyOneResult ==
    Returned => (ret.out.nil <=> ~NilErr(ret.err))

\* C1 witness: each kind of exit is reached, here a call that returned an
\* ErrorResponse and no response.
C1_Witness ==
    Returned /\ Answered /\ IsErrorResponse(ret.err) /\ ret.out.nil
    /\ WellFormedFor(resp.body, ErrorResponseSchema)

\* C2: a 200 answer whose body is well formed for the endpoint's response type
\* is returned decoded, each field holding the value of the body's member (or
\* what the fresh output held, when the body has no such member), and the
\* error is nil.
C2_OkDecodes ==
    (Returned /\ Answered /\ resp.status = StatusOK
        /\ WellFormedFor(resp.body, OutputSchema(fn)))
    => /\ NilErr(ret.err)
       /\ ~ret.out.nil
       /\ ret.out.typ = OutputType(fn)
       /\ \A k \in DOMAIN OutputSchema(fn) :
             ret.out.fields[k] = IF HasMember(resp.body, k)
                                 THEN BodyField(resp.body, k)
                                 ELSE OutputInit(fn)[k]

\* C2 witness: Route returned the decoded route answer.
C2_Witness ==
    /\ Returned /\ fn = "Route" /\ resp = Response(StatusOK, RouteBody)
    /\ ret.out.fields.id = JStr("r1")

\* C3: an answer with another status than 200 whose body is well-formed
\* error JSON is returned as an ErrorResponse holding exactly the body's
\* error_code, error, status_code and status, with a nil response.
C3_ErrorFieldsFromBody ==
    (Returned /\ Answered /\ resp.status # StatusOK
        /\ WellFormedFor(resp.body, ErrorResponseSchema))
    => /\ ret.out.nil
       /\ IsErrorResponse(ret.err)
       /\ ret.err.er.ErrorCode =
             (IF HasMember(resp.body, "error_code")
              THEN BodyField(resp.body, "error_code").s ELSE "")
       /\ ret.err.er.ErrorMessage =
             (IF HasMember(resp.body, "error")
              THEN BodyField(resp.body, "error").s ELSE "")
       /\ ret.err.er.StatusCode =
             (IF HasMember(resp.body, "status_code")
              THEN BodyField(resp.body, "status_code").n ELSE 0)
       /\ ret.err.er.Status =
             (IF HasMember(resp.body, "status")
              THEN BodyField(resp.body, "status").s ELSE "")

\* C3 witness: a 502 answer carrying the error body of a 400.
C3_Witness ==
    /\ Returned /\ resp.status = 502 /\ resp.body = ErrorBody
    /\ ret.err.er.StatusCode = 400 /\ ret.err.er.ErrorCode = "171"

\* C4: an answer with another status than 200 whose body is not JSON is
\* returned as an ErrorResponse whose StatusCode is the HTTP status and whose
\* ErrorMessage is the raw body text; the decoding error is not returned.
C4_FallbackFromRawBody ==
    (Returned /\ Answered /\ resp.status # StatusOK /\ NotJSON(resp.body))
    => /\ ret.out.nil
       /\ IsErrorResponse(ret.err)
       /\ ret.err.er.StatusCode = resp.status
       /\ ret.err.er.ErrorMessage = resp.body.raw
       /\ ret.err.cause # "json.Unmarshal"

\* C4 witness: 502 with the plain text Bad Gateway.
C4_Witness ==
    /\ Returned /\ resp = Response(502, BadGatewayBody)
    /\ ret.err.er.ErrorMessage = "Bad Gateway"

\* C5: when httpClient.Do fails, the call returns a nil response and an error
\* wrapping the transport's error, which is no ErrorResponse and no decode
\* error; the status is not checked and nothing is decoded.
C5_TransportError ==
    (Returned /\ doErr \notin {"none", "nil"})
    => /\ ret.out.nil
       /\ ret.err.kind = "wrapped"
       /\ ret.err.cause = doErr
       /\ ret.err.msgs = <<CallErrMsg(fn)>>
       /\ ~IsErrorResponse(ret.err)
       /\ unmarshalCalls = 0

\* C5 witness: a call whose send was refused.
C5_Witness ==
    /\ Returned /\ doErr = "dial tcp: connection refused" /\ Len(sent) = 1
    /\ ret.err.cause = "dial tcp: connection refused"

\* C6: a 200 answer whose body cannot be decoded into the endpoint's response
\* type gives a nil response and a decode error that is no ErrorResponse.
C6_DecodeError ==
    (Returned /\ Answered /\ resp.status = StatusOK
        /\ ~WellFormedFor(resp.body, OutputSchema(fn)) /\ resp.body.kind # "null")
    => /\ ret.out.nil
       /\ ret.err.kind = "wrapped"
       /\ ret.err.cause = "json.Unmarshal"
       /\ ret.err.msgs = <<DecodeErrMsg(fn)>>
       /\ ~IsErrorResponse(ret.err)

\* C6 witness: Elevation got 200 with an object whose height is a string.
C6_Witness ==
    /\ Returned /\ fn = "Elevation" /\ resp = Response(StatusOK, MistypedBody)
    /\ ret.err.cause = "json.Unmarshal"

\* C7: once the configured hook has returned an error, the call is over:
\* nothing was sent, the body was not serialized, the response is nil and the
\* error wraps the hook's error.
C7_HookErrorAborts ==
    (hookCalls > 0 /\ beforeRequestFn.err # "")
    => /\ Returned
       /\ sent = <<>>
       /\ marshalCalls = 0
       /\ ret.out.nil
       /\ ret.err.kind = "wrapped"
       /\ ret.err.cause = beforeRequestFn.err
       /\ ret.err.msgs = << BuildErrMsg(fn),
                            "error while calling BeforeRequest custom fn" >>

\* C7 witness: a call that the rejecting hook has ended.
C7_Witness ==
    /\ Returned /\ hookCalls = 1 /\ beforeRequestFn = HookReject
    /\ ret.err.cause = "hook: rejected"

\* C8: when the request URI cannot be parsed, or json.Marshal of the request
\* value fails, the call ends before anything is sent, with a nil response and
\* a non-nil build error.
C8_BuildErrorAborts ==
    (\/ fn # "" /\ config.Endpoint = BadEndpoint
     \/ marshalCalls > 0 /\ HasNaN(input))
    => /\ Returned
       /\ sent = <<>>
       /\ doErr = "none"
       /\ ret.out.nil
       /\ ret.err.kind = "wrapped"
       /\ Head(ret.err.msgs) = BuildErrMsg(fn)
       /\ ret.err.cause \in {"uri.Parse", "json.Marshal"}

\* C8 witness: a call ended by the failure of json.Marshal.
C8_Witness ==
    /\ Returned /\ marshalCalls = 1 /\ HasNaN(input)
    /\ ret.err.cause = "json.Marshal"

\* C9: every request handed to the transport has method POST and content type
\* application/json.
C9_SentIsPostJSON ==
    \A i \in 1..Len(sent) :
        sent[i].method = "POST" /\ sent[i].ctype = "application/json"

\* C10: every request handed to the transport carries each configured custom
\* header with its configured value.
C10_SentCarriesCustomHeaders ==
    \A i \in 1..Len(sent) : config.CustomHeaders \subseteq sent[i].headers

\* C11: when the request value is nil and no hook touches the request, the
\* request that is sent has no body and json.Marshal was not called.
C11_NilInputSendsNoBody ==
    \A i \in 1..Len(sent) :
        (input.nil /\ hookCalls = 0)
            => (marshalCalls = 0 /\ sent[i].body = EmptyBytes)

\* C12: with a hook configured, a request that is about to be sent or has been
\* sent has had the hook run on it exactly once: it carries what the hook
\* put on it.
C12_HookRanBeforeSend ==
    (beforeRequestFn # NilHook /\ (pc = "do" \/ sent # <<>>))
    => /\ hookCalls = 1
       /\ beforeRequestFn.headers \subseteq req.headers
       /\ beforeRequestFn.method # "" => req.method = beforeRequestFn.method
       /\ \A i \in 1..Len(sent) : sent[i] = req

\* C12 witness: a request sent with the header the hook has added.
C12_Witness ==
    /\ beforeRequestFn = HookAuth /\ Len(sent) = 1 /\ hookCalls = 1
    /\ <<"Authorization", "Bearer t">> \in sent[1].headers

\* The request of this call cannot be built: the URI does not parse, the hook
\* rejects it or the request value cannot be encoded.
BuildFails ==
    \/ config.Endpoint = BadEndpoint
    \/ beforeRequestFn # NilHook /\ beforeRequestFn.err # ""
    \/ HasNaN(input)

C16_BuffersReleasedOnce ==
    /\ reqBuf.released <= reqBuf.acquired /\ reqBuf.acquired <= 1
    /\ respBuf.released <= respBuf.acquired /\ respBuf.acquired <= 1
    /\ Returned => /\ reqBuf.acquired = 1 /\ reqBuf.released = 1
                   /\ respBuf.released = respBuf.acquired
                   /\ respBuf.acquired = Len(sent)
    /\ pc \in {"hookCheck", "hookCall", "setBody", "do", "status"}
          => reqBuf.released = 0
    /\ pc \in {"do", "status"} => respBuf.acquired = 1 /\ respBuf.released = 0

\* C16 witness: a call that returned an output, both buffers released.
C16_Witness ==
    /\ Returned /\ ~ret.out.nil
    /\ reqBuf.released = 1 /\ respBuf.released = 1

\* C18: Route and Isochrone go to the path /route and Elevation to /height,
\* under the path of the endpoint, whatever the input and however many calls
\* went before.
C18_FixedPath ==
    (pc \in {"hookCheck", "hookCall", "setBody", "do", "status"} \/ sent # <<>>)
    => req.uri.path =
          (IF config.Endpoint = PrefixEndpoint THEN "/api" ELSE "")
          \o (IF fn = "Elevation" THEN "/height" ELSE "/route")

\* C18 witness: a second call, Isochrone, sent to /route.
C18_Witness ==
    /\ ncalls = 1 /\ fn = "Isochrone" /\ Len(sent) = 1
    /\ sent[1].uri.path = "/route"

\* C19: the URL of every request is the endpoint, one slash and the path
\* segment of the endpoint method.
C19_EndpointSlashPath ==
    /\ \A i \in 1..Len(sent) :
          URL(sent[i].uri)
              = config.Endpoint \o "/"
                \o (IF fn = "Elevation" THEN "height" ELSE "route")
    /\ pc = "do" => URL(req.uri)
              = config.Endpoint \o "/"
                \o (IF fn = "Elevation" THEN "height" ELSE "route")

\* C19 witness: Elevation sent to the endpoint with a path of its own.
C19_Witness ==
    /\ fn = "Elevation" /\ Len(sent) = 1
    /\ URL(sent[1].uri) = "http://valhalla.test/api/height"

\* C20: an ErrorResponse is returned only for an answer with another status
\* than 200; no build, hook, transport or decode failure returns one.
C20_ErrorResponseOnlyForStatus ==
    (Returned /\ IsErrorResponse(ret.err))
    => (Answered /\ resp.status # StatusOK /\ Len(sent) = 1)

\* C20 witness: status 201 returned as an ErrorResponse.
C20_Witness ==
    Returned /\ IsErrorResponse(ret.err) /\ resp.status = 201

\* C13: a numeric field the literal leaves out is not in the payload, and
\* the same field set to zero is in the payload with the value 0 (radius of
\* RouteLocation).
C13_ZeroRadiusIsSerialized ==
    (mpc \in {"encoded", "decoded"} /\ literal.typ = "RouteLocation")
    => IF literal.args["radius"].set
       THEN /\ HasMember(payload.data, "radius")
            /\ BodyField(payload.data, "radius") = literal.args["radius"].v
       ELSE ~HasMember(payload.data, "radius")

\* The pointer fields of T whose tag says omitempty.
OptionalPointers(T) ==
    {T[i].k : i \in {j \in 1..Len(T) : T[j].pointer /\ T[j].omitempty}}

\* C14: for a pointer field tagged omitempty, a nil pointer gives a payload
\* without the key and a pointer to a value, the zero value included, gives a
\* payload with the key and the value; the payload decodes to the same nil or
\* pointed-to value.
C14_PointerFieldsRoundTrip ==
    mpc \in {"encoded", "decoded"}
    => \A k \in OptionalPointers(StructType(literal.typ)) :
          /\ ~payload.err
          /\ IF literal.args[k].set
             THEN /\ HasMember(payload.data, k)
                  /\ BodyField(payload.data, k) = literal.args[k].v
             ELSE ~HasMember(payload.data, k)
          /\ mpc = "decoded"
                => /\ ~back.err
                   /\ back.val[k] = (IF literal.args[k].set
                                     THEN literal.args[k].v ELSE Unset)

\* C14 witness: RouteInput.Alternates pointing to 0 has gone to the payload
\* and back.
C14_Witness ==
    /\ mpc = "decoded" /\ literal.typ = "RouteInput"
    /\ literal.args["alternates"] = Set(JNum(0))
    /\ HasMember(payload.data, "alternates")
    /\ back.val["alternates"] = JNum(0)

\* The request buildBaseRequest makes for the endpoint method f and the
\* argument in on this client.
RequestFor(f, in) ==
    LET r == [AcquireRequest EXCEPT
                 !.uri = ParseURI(URITokens(config.Endpoint, Path(f)))]
    IN FinishRequest(MethodArg(f),
           IF beforeRequestFn = NilHook THEN r ELSE ApplyHook(beforeRequestFn, r),
           TRUE, Marshal(in).data)

\* C17: callers that use one client at the same time hold different request
\* and response objects, and for each of them the request on the wire is the
\* one of its own call and argument and its result is the one of its own
\* answer.
C17_CallersDoNotInterfere ==
    /\ \A c1, c2 \in Callers :
          c1 # c2 =>
            /\ callers[c1].reqId # 0 => callers[c1].reqId # callers[c2].reqId
            /\ callers[c1].respId # 0 => callers[c1].respId # callers[c2].respId
    /\ \A c \in Callers :
          LET me == callers[c] IN
          /\ me.pc \in {"wait", "status"} \/ (me.pc = "done" /\ me.doErr # "none")
                => me.wire = RequestFor(me.fn, me.input)
          /\ me.pc = "status" => respBufs[me.respId] = me.answer
          /\ me.reqId # 0 => me.reqId \notin reqFree
          /\ me.respId # 0 => me.respId \notin respFree
          /\ (me.pc = "done" /\ me.doErr = "nil")
                => me.ret = HandleResult(me.fn, me.answer)
          /\ (me.pc = "done" /\ me.doErr \notin {"none", "nil"})
                => me.ret = TransportFailure(me.fn, BaseError(me.doErr))

\* C17 witness: two callers in flight at once with different calls and
\* different answers, and later both returned with different results.
C17_Witness ==
    /\ callers[1].pc = "done" /\ callers[2].pc = "status"
    /\ callers[1].fn = "Route" /\ callers[2].fn = "Elevation"
    /\ callers[1].answer = Response(400, ErrorBody)
    /\ callers[2].answer = Response(StatusOK, ElevationBody)
    /\ IsErrorResponse(callers[1].ret.err)
    /\ callers[2].respId # 0

\* C21: no step of an endpoint call changes a field of the client or of its
\* configuration: the endpoint, the custom headers, the TLS settings, the
\* transport and the hook are after the call what they were before.
C21_CallsLeaveClientAlone ==
    [][ (pc = "idle" /\ pc' = "idle")
        \/ UNCHANGED << config, httpClient, beforeRequestFn >> ]_vars

\* C21 witness: a second call has failed and the hook and the configuration
\* are those of the client.
C21_Witness ==
    /\ ncalls = 1 /\ Returned /\ ~NilErr(ret.err)
    /\ beforeRequestFn = HookAuth /\ lastSet = HookAuth
    /\ config.Endpoint = PrefixEndpoint
    /\ httpClient = NewHTTPClient(config)

\* C22: the hook is invoked on a request that is already a POST with the
\* content type application/json and that has no body yet.
C22_HookSeesPostJSON ==
    pc = "hookCall"
    => /\ req.method = "POST"
       /\ req.ctype = "application/json"
       /\ req.body = EmptyBytes

\* C23: a call reads the hook reference for the nil check and again for the
\* invocation.  When BeforeRequest is only called before the calls, the two
\* reads give the same hook and no nil hook is invoked; a nil hook is invoked
\* only when BeforeRequest runs concurrently with the call, between a nil
\* check that another hook has passed and the invocation.
C23_HookReadTwice ==
    /\ Len(hookReads) <= 2
    /\ Len(hookReads) = 2 => hookReads[1] # NilHook
    /\ setter = "before"
          => /\ pc # "panic"
             /\ \A i, j \in 1..Len(hookReads) : hookReads[i] = hookReads[j]
    /\ pc = "panic"
          => /\ setter = "concurrent"
             /\ Len(hookReads) = 2 /\ hookReads[2] = NilHook
             /\ hookCalls = 0 /\ sent = <<>>

\* C23 witness: the call has passed the nil check with a hook and then
\* invoked the nil hook that BeforeRequest(nil) has stored in between.
C23_Witness ==
    /\ pc = "panic" /\ setter = "concurrent"
    /\ hookReads = << HookAuth, NilHook >>

\* The other interleaving of C23: the call has passed the nil check with one
\* hook and invoked another.
C23_OtherHookInvoked ==
    /\ setter = "concurrent" /\ hookCalls = 1
    /\ hookReads = << HookAuth, HookReject >>
    /\ Returned /\ ~NilErr(ret.err)

\* What C24 says of every state: the client holds the hook that was set
\* last, a call reads and invokes no other, once, and after BeforeRequest(nil)
\* or before any BeforeRequest it invokes none.
C24_LatestHookOnly ==
    /\ beforeRequestFn = lastSet
    /\ \A i \in 1..Len(hookReads) : hookReads[i] = lastSet
    /\ hookCalls > 0 => lastSet # NilHook /\ Len(hookReads) = 2
    /\ (pc \in {"setBody", "do", "status", "done"} /\ config.Endpoint # BadEndpoint)
          => hookCalls = (IF lastSet = NilHook THEN 0 ELSE 1)

\* C24: BeforeRequest replaces the hook and changes no other field of the
\* client, of its configuration or of a call; later calls invoke the hook set
\* last and no other, and none after BeforeRequest(nil).
C24_BeforeRequestReplacesHook ==
    /\ []C24_LatestHookOnly
    /\ [][ (pc = "idle" /\ pc' = "idle")
              => UNCHANGED << config, httpClient, ncalls, callVars, pc >> ]_vars

\* C24 witness: a second call has invoked the hook set last, which has
\* rewritten the method of the request.
C24_Witness ==
    /\ ncalls = 1 /\ pc = "setBody" /\ hookCalls = 1
    /\ lastSet = HookRewrite /\ hookReads = << HookRewrite, HookRewrite >>
    /\ req.method = "PUT"

\* json.Unmarshal into an ErrorResponse accepts the body: an object whose
\* members have the types of the fields, or null.
DecodesAsError(body) ==
    WellFormedFor(body, ErrorResponseSchema) \/ body.kind = "null"

\* C25: for an answer with another status than 200 whose body decodes, the
\* StatusCode of the ErrorResponse is the status_code member of the body, 0
\* when the body has none, whatever the HTTP status; the HTTP status is in
\* StatusCode when and only when decoding fails.
C25_StatusCodeNotFromHTTP ==
    (Returned /\ Answered /\ resp.status # StatusOK)
    => /\ IsErrorResponse(ret.err)
       /\ ret.err.er.StatusCode =
             (IF ~DecodesAsError(resp.body) THEN resp.status
              ELSE IF HasMember(resp.body, "status_code")
              THEN BodyField(resp.body, "status_code").n
              ELSE 0)

\* C25 witness: a 400 answer whose body has no status_code is returned with
\* StatusCode 0.
C25_Witness ==
    /\ Returned /\ resp = Response(400, PartialErrorBody)
    /\ IsErrorResponse(ret.err) /\ ret.err.er.StatusCode = 0
    /\ ret.err.er.ErrorMessage = "Try again later"

\* C26: an answer with any status but 200, the other 2xx and the 3xx
\* included, is returned as a nil response and an ErrorResponse, also when
\* its body is a well-formed response of the endpoint; no decoding error of
\* the response type is returned for it.
C26_Only200IsSuccess ==
    (Returned /\ Answered)
    => /\ resp.status # StatusOK
          => /\ ret.out.nil
             /\ IsErrorResponse(ret.err)
             /\ ret.err.msgs = <<>>
       /\ resp.status = StatusOK => ~IsErrorResponse(ret.err)

\* C26 witness: a 204 answer with a well-formed route body is returned as an
\* ErrorResponse.
C26_Witness ==
    /\ Returned /\ fn = "Route" /\ resp = Response(204, RouteBody)
    /\ ret.out.nil /\ IsErrorResponse(ret.err)

\* C27: when the URI of the request does not parse, the call returns at once
\* with a nil response and an error: the hook is neither read nor invoked,
\* nothing is encoded, no response buffer is acquired, nothing is sent, and
\* the request buffer has been released.
C27_BadURIStopsEverything ==
    (pc # "idle" /\ config.Endpoint = BadEndpoint)
    => /\ Returned
       /\ hookReads = <<>> /\ hookCalls = 0
       /\ marshalCalls = 0
       /\ respBuf = [acquired |-> 0, released |-> 0]
       /\ sent = <<>>
       /\ reqBuf = [acquired |-> 1, released |-> 1]
       /\ ret.out.nil
       /\ ret.err.kind = "wrapped"
       /\ ret.err.msgs = << BuildErrMsg(fn), "unable to build request uri" >>

\* C27 witness: a client with a hook and an endpoint that does not parse has
\* returned from Elevation.
C27_Witness ==
    /\ Returned /\ fn = "Elevation" /\ config.Endpoint = BadEndpoint
    /\ beforeRequestFn = HookAuth /\ hookCalls = 0
    /\ ~NilErr(ret.err) /\ reqBuf.released = 1

\* C28: whatever content type and body the hook has written, the request
\* that is sent has the content type application/json and, for a request
\* value that is not nil, the JSON of that value as its body; the body of the
\* hook is sent only when nothing was encoded.
C28_EnvelopeOverridesHook ==
    \A i \in 1..Len(sent) :
        /\ sent[i].ctype = "application/json"
        /\ ~input.nil => sent[i].body = Marshal(input).data
        /\ (beforeRequestFn.setsBody /\ sent[i].body = beforeRequestFn.body)
              => marshalCalls = 0

\* C28 witness: the hook has written text/plain and a body of its own, and
\* the request is sent as JSON with the encoded route input.
C28_Witness ==
    /\ beforeRequestFn = HookRewrite /\ hookCalls = 1 /\ Len(sent) = 1
    /\ fn = "Route" /\ ~input.nil
    /\ sent[1].ctype = "application/json"
    /\ sent[1].body.kind = "object"
    /\ HasMember(sent[1].body, "costing")
    /\ sent[1].method = "PUT"

\* C29: in the ErrorResponse made for an answer with another status than 200
\* whose body did not decode, StatusCode is the HTTP status, ErrorMessage the
\* raw body, and ErrorCode and Status are empty: nothing of the body that the
\* decoder had read before it failed is left in it.
C29_FallbackHasNoLeftovers ==
    (Returned /\ Answered /\ resp.status # StatusOK
        /\ ~DecodesAsError(resp.body))
    => /\ IsErrorResponse(ret.err)
       /\ ret.err.er.StatusCode = resp.status
       /\ ret.err.er.ErrorMessage = resp.body.raw
       /\ ret.err.er.ErrorCode = ""
       /\ ret.err.er.Status = ""

\* C30: the text of an ErrorResponse is its Status, a colon, a space and its
\* ErrorMessage; for the ErrorResponse made from a body that did not decode
\* it is a colon, a space and the raw body.
C30_ErrorText ==
    (Returned /\ Answered /\ IsErrorResponse(ret.err))
    => /\ ErrorText(ret.err.er)
             = ret.err.er.Status \o ": " \o ret.err.er.ErrorMessage
       /\ ~DecodesAsError(resp.body)
             => ErrorText(ret.err.er) = ": " \o resp.body.raw

====
